---- MODULE Spec2Model ----
(***************************************************************************)
(* KnowledgeSavvy: the self-correcting RAG workflow of ai_agent/graph.py.  *)
(*                                                                         *)
(* One run of the compiled LangGraph agent is modelled.  The graph state   *)
(* is the record `state`, whose DOMAIN is the set of keys present in the   *)
(* GraphState dictionary; a node returns an update dictionary that         *)
(* overwrites the keys it names.  A step executes the one scheduled node   *)
(* together with the routing function attached to it, as the runtime does. *)
(* Language models, the retriever and the search provider are external:    *)
(* their answers are inputs chosen from small sets.                        *)
(***************************************************************************)
EXTENDS Integers, Sequences, FiniteSets, TLC

VARIABLES
    state,        \* the GraphState dictionary of the run
    active,       \* nodes scheduled for the next step; {} once the run ended
    last,         \* node executed by the most recent step ("START" before any)
    decision,     \* label returned by the most recent routing function
    calls,        \* component invocations made by the most recent step, in order
    web_results,  \* provider responses of the web searches of the run, in order
    previous,     \* `last` and `decision` as they were before the most recent step
    graded_documents  \* the documents the grading step of the run returned

vars == <<state, active, last, decision, calls, web_results, previous,
          graded_documents>>

-----------------------------------------------------------------------------
(* Bounds of the model *)

\* longest result list the retriever returns in the model
MaxRetrieved == 2
\* web searches explored per run
MaxSearches == 2
\* longest chat history passed to a node called on its own
MaxHistory == 7
\* collections and sources ever created in the database, ids per source
MaxCollections == 2
MaxSources == 2
MaxIds == 2

(* Program constants *)

\* TavilySearch(max_results=3)
MaxResults == 3
\* retriever.search_kwargs.get("k", 4)
DefaultK == 4
\* chat_history[-6:]
HistoryWindow == 6

-----------------------------------------------------------------------------
(* Node names (ai_agent/consts.py) and the END sentinel of langgraph *)

RETRIEVE == "RETRIEVE"
GRADE_DOCUMENTS == "GRADE_DOCUMENTS"
GENERATE == "GENERATE"
WEBSEARCH == "WEBSEARCH"
END == "__end__"

\* Python's None where a list is expected: distinct from every document list
None == <<[py_none |-> TRUE]>>

-----------------------------------------------------------------------------
(* Input domains *)

Questions == {"What is a vector database?"}

Answers == {"answer-1", "answer-2"}

\* (content, score) pairs the vector store can return
StoreHits == {[content |-> "chunk-a", score |-> "0.21"],
              [content |-> "chunk-b", score |-> "0.58"]}

\* a Document as stored: page_content and its metadata dictionary
StoredDoc(content) == [page_content |-> content, metadata |-> [source |-> "notes.pdf"]]

\* relevance_score: float, ge=0, le=1
RelScores == {"0.4", "0.9"}

\* GradeDocuments structured output
GraderResponses == [relevance : BOOLEAN, relevance_score : RelScores]

\* the results the search provider has for the question, best first
WebRanking ==
    << [title |-> "T1", url |-> "http://one", content |-> "web-1", score |-> "0.8"],
       [title |-> "T2", url |-> "http://two", content |-> "web-2", score |-> "0.6"],
       [title |-> "T3", url |-> "http://three", content |-> "web-3", score |-> "0.3"],
       [title |-> "T4", url |-> "http://four", content |-> "web-4", score |-> "0.1"] >>

\* what the provider may answer: the best n results, at most max_results
WebResponses == { SubSeq(WebRanking, 1, n) : n \in 0..MaxResults }

\* chat histories the caller may pass
Histories ==
    { <<>>,
      << [role |-> "user", content |-> "hello"],
         [role |-> "assistant", content |-> "hi"],
         [role |-> "system", content |-> "note"],
         [role |-> "user", content |-> ""] >> }

\* retriever handles the caller may pass
Retrievers ==
    { [has_vectorstore |-> TRUE, search_kwargs |-> <<>>],
      [has_vectorstore |-> TRUE, search_kwargs |-> [k |-> 1]],
      [has_vectorstore |-> FALSE, search_kwargs |-> <<>>] }

\* finite sequences over S of length at most n
SeqsUpTo(S, n) == UNION { [1..m -> S] : m \in 0..n }

Min(a, b) == IF a <= b THEN a ELSE b

-----------------------------------------------------------------------------
(* Dictionary helpers *)

\* Python's d.get(key, default)
Get(d, key, default) == IF key \in DOMAIN d THEN d[key] ELSE default

\* the state after a node returned the dictionary `update`
Merge(update, st) == update @@ st

-----------------------------------------------------------------------------
(* nodes/retrieve.py *)

\* a slip: the configured result count is ignored
RequestedK_ignores_config(retriever) == DefaultK

\* the k requested from the vector store
RequestedK(retriever) == Get(retriever.search_kwargs, "k", DefaultK)

\* doc.metadata["similarity_score"] = float(score)
WithSimilarity(doc, score) ==
    [doc EXCEPT !.metadata = ("similarity_score" :> score) @@ @]

\* retrieve(state): `found` is what the backend returned for the question
retrieve(st, found) ==
    LET retriever == st.retriever
        documents ==
            IF retriever.has_vectorstore
            THEN [i \in 1..Len(found) |->
                     WithSimilarity(StoredDoc(found[i].content), found[i].score)]
            ELSE [i \in 1..Len(found) |-> StoredDoc(found[i].content)]
    IN  [documents |-> documents, question |-> st.question]

\* the call retrieve makes to the backend, with what it returned
RetrieverCall(st, found) ==
    IF st.retriever.has_vectorstore
    THEN [component |-> "retriever", method |-> "similarity_search_with_score",
          input |-> st.question, k |-> RequestedK(st.retriever), output |-> found]
    ELSE [component |-> "retriever", method |-> "invoke",
          input |-> st.question, output |-> found]

\* result lists the backend may return for this retriever
RetrieverResults(retriever) ==
    IF retriever.has_vectorstore
    THEN SeqsUpTo(StoreHits, Min(RequestedK(retriever), MaxRetrieved))
    ELSE SeqsUpTo(StoreHits, MaxRetrieved)

-----------------------------------------------------------------------------
(* nodes/grade_documents.py *)

\* the arguments of one retrieval_grader.invoke
GraderInput(question, d) ==
    [question |-> question,
     document |-> d.page_content,
     similarity_score |-> Get(d.metadata, "similarity_score", "unknown")]

\* `if grade:` on grade = score.get("relevance", "no"); the default is a
\* non-empty string, which is true in a condition
IsRelevant(score) == IF "relevance" \in DOMAIN score THEN score.relevance ELSE TRUE

\* d.metadata["relevance_score"] = score.get("relevance_score", 0.0)
WithRelevance(d, score) ==
    [d EXCEPT !.metadata =
        ("relevance_score" :> Get(score, "relevance_score", "0.0")) @@ @]

\* a slip: the flag is assigned for every document, so the last one decides
GradeBody_last_decides(acc, d, score) ==
    IF IsRelevant(score)
    THEN [acc EXCEPT !.filtered_docs = Append(@, WithRelevance(d, score)),
                     !.web_search = FALSE]
    ELSE [acc EXCEPT !.web_search = TRUE]

\* a slip: a relevant document is put in front of the list
GradeBody_prepends(acc, d, score) ==
    IF IsRelevant(score)
    THEN [acc EXCEPT !.filtered_docs = <<WithRelevance(d, score)>> \o @]
    ELSE [acc EXCEPT !.web_search = TRUE]

\* the body of the for loop: one document d with the grader's answer for it;
\* acc is [filtered_docs, web_search] so far
GradeBody(acc, d, score) ==
    IF IsRelevant(score)
    THEN [acc EXCEPT !.filtered_docs = Append(@, WithRelevance(d, score))]
    ELSE [acc EXCEPT !.web_search = TRUE]

\* the for loop over documents, from the i-th document on
RECURSIVE GradeLoop(_, _, _, _)
GradeLoop(documents, scores, i, acc) ==
    IF i > Len(documents) THEN acc
    ELSE GradeLoop(documents, scores, i + 1, GradeBody(acc, documents[i], scores[i]))

\* grade_documents(state): scores[i] is the grader's answer for documents[i]
grade_documents(st, scores) ==
    LET out == GradeLoop(st.documents, scores, 1,
                         [filtered_docs |-> <<>>, web_search |-> FALSE])
    IN  [documents |-> out.filtered_docs,
         question |-> st.question,
         web_search |-> out.web_search]

\* the grader invocations of grade_documents, in order
GradeCalls(st, scores) ==
    [i \in 1..Len(st.documents) |->
        [component |-> "retrieval_grader",
         input |-> GraderInput(st.question, st.documents[i]),
         output |-> scores[i]]]

-----------------------------------------------------------------------------
(* nodes/generate.py *)

\* the text used when no entry qualifies
NoConversation == <<[speaker |-> "", text |-> "No previous conversation."]>>

\* chat_history[-6:]
LastEntries(h) ==
    IF Len(h) <= HistoryWindow THEN h ELSE SubSeq(h, Len(h) - HistoryWindow + 1, Len(h))

\* the lines one entry contributes to history_items: none or one
HistoryItem(entry) ==
    LET role == Get(entry, "role", "")
        content == Get(entry, "content", "")
    IN  IF role # "" /\ content # ""
        THEN IF role = "user" THEN <<[speaker |-> "User", text |-> content]>>
             ELSE IF role = "assistant"
                  THEN <<[speaker |-> "Assistant", text |-> content]>>
                  ELSE <<>>
        ELSE <<>>

RECURSIVE HistoryItems(_)
HistoryItems(entries) ==
    IF entries = <<>> THEN <<>>
    ELSE HistoryItem(Head(entries)) \o HistoryItems(Tail(entries))

\* a slip: the entries are filtered first and the window taken afterwards
FormatHistory_filters_first(chat_history) ==
    IF chat_history # <<>>
    THEN LET history_items == LastEntries(HistoryItems(chat_history))
         IN  IF history_items # <<>> THEN history_items ELSE NoConversation
    ELSE NoConversation

\* a slip: the lines are listed newest first
FormatHistory_newest_first(chat_history) ==
    IF chat_history # <<>>
    THEN LET history_items == HistoryItems(LastEntries(chat_history))
             n == Len(history_items)
         IN  IF history_items # <<>>
             THEN [k \in 1..n |-> history_items[n + 1 - k]]
             ELSE NoConversation
    ELSE NoConversation

\* formatted_history: the lines joined by newlines, or the placeholder
FormatHistory(chat_history) ==
    IF chat_history # <<>>
    THEN LET history_items == HistoryItems(LastEntries(chat_history))
         IN  IF history_items # <<>> THEN history_items ELSE NoConversation
    ELSE NoConversation

\* the arguments of generation_chain.invoke
GenerationInput(st) ==
    [context |-> st.documents,
     question |-> st.question,
     chat_history |-> FormatHistory(Get(st, "chat_history", <<>>))]

\* a slip: an answer already in the state is kept
generate_keeps_first(st, answer) ==
    [documents |-> st.documents, question |-> st.question,
     generation |-> Get(st, "generation", answer)]

\* a slip: the answer is also appended to the chat history
generate_appends_turn(st, answer) ==
    [documents |-> st.documents, question |-> st.question, generation |-> answer,
     chat_history |-> Append(Get(st, "chat_history", <<>>),
                             [role |-> "assistant", content |-> answer])]

\* generate(state): `answer` is what the generation chain returned
generate(st, answer) ==
    [documents |-> st.documents, question |-> st.question, generation |-> answer]

-----------------------------------------------------------------------------
(* nodes/web_search.py *)

\* a slip: the source is the URL alone and the score is left out
WebDocument_url_only(tavily_result) ==
    [page_content |-> tavily_result.content,
     metadata |-> [source |-> <<tavily_result.url>>]]

\* one search result as a Document
WebDocument(tavily_result) ==
    [page_content |-> tavily_result.content,
     metadata |-> [source |-> <<tavily_result.title, "\n", tavily_result.url>>,
                   relevance_score |-> tavily_result.score]]

\* the for loop over tavily_results; documents is None or a list
RECURSIVE AppendResults(_, _)
AppendResults(documents, tavily_results) ==
    IF tavily_results = <<>> THEN documents
    ELSE AppendResults(
            IF documents # None
            THEN Append(documents, WebDocument(Head(tavily_results)))
            ELSE <<WebDocument(Head(tavily_results))>>,
            Tail(tavily_results))

\* a slip: a result whose content is already among the documents is skipped
web_search_deduplicates(st, tavily_results) ==
    LET documents == IF "documents" \in DOMAIN st THEN st.documents ELSE <<>>
        seen == { documents[i].page_content : i \in 1..Len(documents) }
        fresh(r) == r.content \notin seen
    IN  [documents |-> AppendResults(documents, SelectSeq(tavily_results, fresh)),
         question |-> st.question]

\* a slip: the new results are put in front of the existing documents
web_search_results_first(st, tavily_results) ==
    LET documents == IF "documents" \in DOMAIN st THEN st.documents ELSE <<>>
    IN  [documents |-> AppendResults(<<>>, tavily_results) \o documents,
         question |-> st.question]

\* web_search(state): `tavily_results` is the provider's "results" list
web_search(st, tavily_results) ==
    LET documents == IF "documents" \in DOMAIN st THEN st.documents ELSE None
    IN  [documents |-> AppendResults(documents, tavily_results),
         question |-> st.question]

-----------------------------------------------------------------------------
(* graph.py: routing functions *)

\* a slip: the flag is ignored and the answer is always generated at once
decide_to_generate_always_generate(st) == GENERATE

\* decide_to_generate(state)
decide_to_generate(st) == IF st.web_search THEN WEBSEARCH ELSE GENERATE

\* a slip: the labels of the two failures are exchanged
grade_generation_labels_exchanged(st, hallucination_score, answer_score) ==
    LET hallucination_call ==
            [component |-> "hallucination_grader",
             input |-> [documents |-> st.documents, generation |-> st.generation],
             output |-> hallucination_score]
        answer_call ==
            [component |-> "answer_grader",
             input |-> [question |-> st.question, generation |-> st.generation],
             output |-> answer_score]
    IN  IF hallucination_score.binary_score
        THEN IF answer_score.binary_score
             THEN [label |-> "useful", calls |-> <<hallucination_call, answer_call>>]
             ELSE [label |-> "not supported",
                   calls |-> <<hallucination_call, answer_call>>]
        ELSE [label |-> "not useful", calls |-> <<hallucination_call>>]

\* a slip: once a web search was made, an answer that misses the question is
\* accepted
grade_generation_gives_up_after_search(st, hallucination_score, answer_score) ==
    LET hallucination_call ==
            [component |-> "hallucination_grader",
             input |-> [documents |-> st.documents, generation |-> st.generation],
             output |-> hallucination_score]
        answer_call ==
            [component |-> "answer_grader",
             input |-> [question |-> st.question, generation |-> st.generation],
             output |-> answer_score]
    IN  IF hallucination_score.binary_score
        THEN IF answer_score.binary_score \/ web_results # <<>>
             THEN [label |-> "useful", calls |-> <<hallucination_call, answer_call>>]
             ELSE [label |-> "not useful", calls |-> <<hallucination_call, answer_call>>]
        ELSE [label |-> "not supported", calls |-> <<hallucination_call>>]

\* a slip: an empty document set is approved without asking the grader
grade_generation_skips_empty(st, hallucination_score, answer_score) ==
    LET hallucination_call ==
            [component |-> "hallucination_grader",
             input |-> [documents |-> st.documents, generation |-> st.generation],
             output |-> hallucination_score]
        answer_call ==
            [component |-> "answer_grader",
             input |-> [question |-> st.question, generation |-> st.generation],
             output |-> answer_score]
        hallucination_calls ==
            IF st.documents = <<>> THEN <<>> ELSE <<hallucination_call>>
    IN  IF st.documents = <<>> \/ hallucination_score.binary_score
        THEN IF answer_score.binary_score
             THEN [label |-> "useful", calls |-> hallucination_calls \o <<answer_call>>]
             ELSE [label |-> "not useful",
                   calls |-> hallucination_calls \o <<answer_call>>]
        ELSE [label |-> "not supported", calls |-> hallucination_calls]

\* grade_generation_grounded_in_documents_and_question(state): the label it
\* returns and the grader invocations it makes; hallucination_score and
\* answer_score are what the two graders answer when invoked
grade_generation_grounded_in_documents_and_question(st, hallucination_score, answer_score) ==
    LET hallucination_call ==
            [component |-> "hallucination_grader",
             input |-> [documents |-> st.documents, generation |-> st.generation],
             output |-> hallucination_score]
        answer_call ==
            [component |-> "answer_grader",
             input |-> [question |-> st.question, generation |-> st.generation],
             output |-> answer_score]
    IN  IF hallucination_score.binary_score
        THEN IF answer_score.binary_score
             THEN [label |-> "useful", calls |-> <<hallucination_call, answer_call>>]
             ELSE [label |-> "not useful", calls |-> <<hallucination_call, answer_call>>]
        ELSE [label |-> "not supported", calls |-> <<hallucination_call>>]

-----------------------------------------------------------------------------
(* graph.py: the workflow *)

\* workflow.set_entry_point
EntryPoint == RETRIEVE

\* a slip: the web results are sent back to the grader
StaticEdges_search_regrades(node) ==
    CASE node = RETRIEVE -> {GRADE_DOCUMENTS}
      [] node = WEBSEARCH -> {GRADE_DOCUMENTS}
      [] node = GENERATE -> {END}
      [] OTHER -> {}

\* workflow.add_edge: the unconditional edges out of a node
StaticEdges(node) ==
    CASE node = RETRIEVE -> {GRADE_DOCUMENTS}
      [] node = WEBSEARCH -> {GENERATE}
      [] node = GENERATE -> {END}
      [] OTHER -> {}

\* the path map of the conditional edges out of GRADE_DOCUMENTS
GradeDocumentsPaths(label) ==
    CASE label = WEBSEARCH -> WEBSEARCH
      [] label = GENERATE -> GENERATE

\* a slip: a hallucinated answer is retried after a web search
GeneratePaths_retry_by_search(label) ==
    CASE label = "not supported" -> WEBSEARCH
      [] label = "useful" -> END
      [] label = "not useful" -> WEBSEARCH

\* a slip: an answer that misses the question is regenerated at once
GeneratePaths_no_escalation(label) ==
    CASE label = "not supported" -> GENERATE
      [] label = "useful" -> END
      [] label = "not useful" -> GENERATE

\* the path map of the conditional edges out of GENERATE
GeneratePaths(label) ==
    CASE label = "not supported" -> GENERATE
      [] label = "useful" -> END
      [] label = "not useful" -> WEBSEARCH

\* a slip: an edge to END ends the run whatever the other edges say
Scheduled_end_wins(node, branches) ==
    IF END \in StaticEdges(node) \cup branches
    THEN {}
    ELSE StaticEdges(node) \cup branches

\* the nodes that run after `node`: every edge out of it is followed, and END
\* is no node; a run ends when nothing is scheduled
Scheduled(node, branches) == (StaticEdges(node) \cup branches) \ {END}

-----------------------------------------------------------------------------
(* The run *)

Init ==
    /\ \E q \in Questions, r \in Retrievers, h \in Histories :
          state = [question |-> q, retriever |-> r, chat_history |-> h]
    /\ active = {EntryPoint}
    /\ last = "START"
    /\ decision = "none"
    /\ calls = <<>>
    /\ web_results = <<>>
    /\ previous = [node |-> "START", decision |-> "none"]
    /\ graded_documents = <<>>

\* what `previous` becomes in every step
Remember == previous' = [node |-> last, decision |-> decision]

\* the RETRIEVE node
Retrieve ==
    /\ RETRIEVE \in active
    /\ \E found \in RetrieverResults(state.retriever) :
          /\ state' = Merge(retrieve(state, found), state)
          /\ calls' = <<RetrieverCall(state, found)>>
    /\ active' = Scheduled(RETRIEVE, {})
    /\ last' = RETRIEVE
    /\ UNCHANGED <<decision, web_results, graded_documents>>
    /\ Remember

\* the GRADE_DOCUMENTS node and decide_to_generate
GradeDocuments ==
    /\ GRADE_DOCUMENTS \in active
    /\ \E scores \in [1..Len(state.documents) -> GraderResponses] :
          LET new == Merge(grade_documents(state, scores), state)
              label == decide_to_generate(new)
          IN  /\ state' = new
              /\ graded_documents' = new.documents
              /\ calls' = GradeCalls(state, scores)
              /\ decision' = label
              /\ active' = Scheduled(GRADE_DOCUMENTS, {GradeDocumentsPaths(label)})
    /\ last' = GRADE_DOCUMENTS
    /\ UNCHANGED web_results
    /\ Remember

\* the GENERATE node and grade_generation_grounded_in_documents_and_question;
\* the model explores at most MaxSearches web searches per run
Generate ==
    /\ GENERATE \in active
    /\ \E answer \in Answers, grounded \in BOOLEAN, addresses \in BOOLEAN :
          LET new == Merge(generate(state, answer), state)
              graded == grade_generation_grounded_in_documents_and_question(
                            new, [binary_score |-> grounded],
                            [binary_score |-> addresses])
          IN  /\ graded.label = "not useful" => Len(web_results) < MaxSearches
              /\ state' = new
              /\ calls' = <<[component |-> "generation_chain",
                             input |-> GenerationInput(state),
                             output |-> answer]>> \o graded.calls
              /\ decision' = graded.label
              /\ active' = Scheduled(GENERATE, {GeneratePaths(graded.label)})
    /\ last' = GENERATE
    /\ UNCHANGED <<web_results, graded_documents>>
    /\ Remember

\* the WEBSEARCH node
WebSearch ==
    /\ WEBSEARCH \in active
    /\ \E tavily_results \in WebResponses :
          /\ state' = Merge(web_search(state, tavily_results), state)
          /\ calls' = <<[component |-> "web_search_tool", input |-> state.question,
                         output |-> tavily_results]>>
          /\ web_results' = Append(web_results, tavily_results)
    /\ active' = Scheduled(WEBSEARCH, {})
    /\ last' = WEBSEARCH
    /\ UNCHANGED <<decision, graded_documents>>
    /\ Remember

Next == Retrieve \/ GradeDocuments \/ Generate \/ WebSearch

Spec == Init /\ [][Next]_vars

\* every scheduled node is eventually executed
FairSpec == Spec /\ WF_vars(Next)

-----------------------------------------------------------------------------
(* Properties of the routing *)

\* the run has ended: no node is scheduled
Ended == active = {}

\* C1: after the GRADE_DOCUMENTS step exactly one node is scheduled, and the
\* step executed next is WEBSEARCH if the web_search flag that step produced
\* is true and GENERATE if it is false
C1_GradeRouting ==
    /\ [](last = GRADE_DOCUMENTS =>
            active = IF state.web_search THEN {WEBSEARCH} ELSE {GENERATE})
    /\ [][last = GRADE_DOCUMENTS =>
            last' = IF state.web_search THEN WEBSEARCH ELSE GENERATE]_vars

\* a web search was executed right after a grading pass that set the flag
C1_Witness ==
    /\ last = WEBSEARCH
    /\ previous.node = GRADE_DOCUMENTS
    /\ state.web_search
    /\ Len(state.documents) > 1

\* C2: after GENERATE the decision is "not supported" when the hallucination
\* grader answered not grounded, "not useful" when it answered grounded and
\* the answer grader answered no, and "useful" exactly when both answered yes
C2_DecisionTable ==
    last = GENERATE =>
        LET hallucination == calls[2]
        IN  /\ hallucination.component = "hallucination_grader"
            /\ ~hallucination.output.binary_score => decision = "not supported"
            /\ hallucination.output.binary_score =>
                  /\ Len(calls) = 3
                  /\ calls[3].component = "answer_grader"
                  /\ ~calls[3].output.binary_score => decision = "not useful"
                  /\ calls[3].output.binary_score => decision = "useful"
            /\ decision = "useful" =>
                  /\ hallucination.output.binary_score
                  /\ Len(calls) = 3
                  /\ calls[3].output.binary_score

\* a grounded answer that does not address the question
C2_Witness ==
    /\ last = GENERATE
    /\ Len(calls) = 3
    /\ calls[2].output.binary_score
    /\ ~calls[3].output.binary_score

\* C3: a run ends only right after a GENERATE step whose decision is "useful",
\* and then both graders passed the generation, documents and question the
\* caller receives
C3_EndOnlyUseful ==
    Ended =>
        /\ last = GENERATE
        /\ decision = "useful"
        /\ Len(calls) = 3
        /\ calls[2].component = "hallucination_grader"
        /\ calls[2].input = [documents |-> state.documents,
                             generation |-> state.generation]
        /\ calls[2].output.binary_score
        /\ calls[3].component = "answer_grader"
        /\ calls[3].input = [question |-> state.question,
                             generation |-> state.generation]
        /\ calls[3].output.binary_score

\* a run that ended after a retry of an answer that was not supported
C3_Witness ==
    /\ Ended
    /\ previous = [node |-> GENERATE, decision |-> "not supported"]

\* what the generation chain was given in the most recent GENERATE step
SeenByGenerate == calls[1].input

\* C4: after a "not supported" decision the step executed next is GENERATE,
\* it is given the same documents, question and chat history as the failed
\* attempt, and nothing of the state but the generation changes
C4_RetrySameInputs ==
    /\ [](last = GENERATE /\ decision = "not supported" => active = {GENERATE})
    /\ [][last = GENERATE /\ decision = "not supported" =>
            /\ last' = GENERATE
            /\ SeenByGenerate' = SeenByGenerate
            /\ SeenByGenerate'.context = state.documents
            /\ DOMAIN state' = DOMAIN state
            /\ \A key \in DOMAIN state \ {"generation"} : state'[key] = state[key]
            /\ web_results' = web_results]_vars

\* a retry: GENERATE executed right after a "not supported" decision
C4_Witness ==
    /\ last = GENERATE
    /\ previous = [node |-> GENERATE, decision |-> "not supported"]
    /\ state.documents # <<>>

\* C5: after a "not useful" decision the step executed next is WEBSEARCH and
\* the step after a WEBSEARCH is GENERATE; the run does not end in between
C5_EscalationPath ==
    /\ [](last = GENERATE /\ decision = "not useful" => active = {WEBSEARCH})
    /\ [](last = WEBSEARCH => active = {GENERATE})
    /\ [][last = GENERATE /\ decision = "not useful" => last' = WEBSEARCH]_vars
    /\ [][last = WEBSEARCH => last' = GENERATE]_vars

\* GENERATE executed again after the web search of an escalation
C5_Witness ==
    /\ last = GENERATE
    /\ previous = [node |-> WEBSEARCH, decision |-> "not useful"]

\* C6: every run eventually ends, whatever the graders answer
C6_Terminates == <>Ended

\* C7: after every GENERATE step, also with no documents, the hallucination
\* grader was invoked on the documents and the generation of the state before
\* the routing decision, and the answer grader was invoked only after the
\* hallucination grader passed, on the same generation
C7_HallucinationChecked ==
    last = GENERATE =>
        /\ Len(calls) >= 2
        /\ calls[1].component = "generation_chain"
        /\ calls[1].output = state.generation
        /\ calls[2].component = "hallucination_grader"
        /\ calls[2].input = [documents |-> state.documents,
                             generation |-> state.generation]
        /\ \A i \in 1..Len(calls) :
              calls[i].component = "answer_grader" =>
                  /\ i = 3
                  /\ calls[2].output.binary_score
                  /\ calls[i].input = [question |-> state.question,
                                       generation |-> state.generation]
        /\ decision \in {"useful", "not useful", "not supported"}

\* both graders were asked about an answer generated from no documents
C7_Witness ==
    /\ last = GENERATE
    /\ state.documents = <<>>
    /\ Len(calls) = 3
    /\ calls[3].component = "answer_grader"

\* C8: no run ends while its document set is empty
C8_NoAcceptOnEmpty == Ended => state.documents # <<>>

-----------------------------------------------------------------------------
(* Properties of the grading step *)

C10_GradingFilters ==
    [][last = RETRIEVE /\ last' = GRADE_DOCUMENTS =>
        LET input == state.documents
            output == state'.documents
            answer(i) == calls'[i].output
            Kept(i) == Cardinality({j \in 1..i : answer(j).relevance})
        IN  /\ Len(calls') = Len(input)
            /\ Len(output) = Kept(Len(input))
            /\ \A i \in 1..Len(input) :
                  /\ calls'[i].input.document = input[i].page_content
                  /\ answer(i).relevance =>
                        LET d == output[Kept(i)]
                        IN  /\ d.page_content = input[i].page_content
                            /\ DOMAIN d.metadata =
                                  DOMAIN input[i].metadata \cup {"relevance_score"}
                            /\ d.metadata.relevance_score = answer(i).relevance_score
                            /\ \A k \in DOMAIN input[i].metadata \ {"relevance_score"} :
                                  d.metadata[k] = input[i].metadata[k]]_vars

\* two different documents passed with different scores
C10_Witness ==
    /\ last = GRADE_DOCUMENTS
    /\ Len(calls) = 2
    /\ Len(state.documents) = 2
    /\ state.documents[1].page_content # state.documents[2].page_content
    /\ state.documents[1].metadata.relevance_score
          # state.documents[2].metadata.relevance_score

\* C11: whenever the grading step leaves no document, also when nothing was
\* retrieved, the web_search flag is true and WEBSEARCH is what runs next
C11_EmptyEvidenceSearches ==
    last = GRADE_DOCUMENTS /\ state.documents = <<>> =>
        /\ state.web_search
        /\ active = {WEBSEARCH}

-----------------------------------------------------------------------------
(* Properties of the web-search step *)

\* the step from the current state to the next one is a web search
IsWebSearchStep == web_results' # web_results

\* C12: the web-search step leaves every prior document where it was and
\* unchanged, and puts the mapped results after them in the provider's order
C12_SearchKeepsPrefix ==
    [][IsWebSearchStep =>
        LET D == state.documents
            results == calls'[1].output
            after == state'.documents
        IN  /\ last' = WEBSEARCH
            /\ Len(after) = Len(D) + Len(results)
            /\ \A i \in 1..Len(D) : after[i] = D[i]
            /\ \A j \in 1..Len(results) :
                  after[Len(D) + j].page_content = results[j].content]_vars

\* a search that returned several results was added to several documents
C12_Witness ==
    /\ last = WEBSEARCH
    /\ Len(calls[1].output) >= 2
    /\ Len(state.documents) >= Len(calls[1].output) + 2

\* all results of the searches of the run so far, in the order returned
RECURSIVE AllResults(_)
AllResults(searches) ==
    IF searches = <<>> THEN <<>>
    ELSE Head(searches) \o AllResults(Tail(searches))

\* C14: once graded, the documents of a run are the graded documents followed
\* by every result of the 1st, 2nd, ... web search of the run in that order,
\* each search adding at most max_results; the number of documents never
\* decreases
C14_SearchesAccumulate ==
    /\ [](last \notin {"START", RETRIEVE} =>
            LET results == AllResults(web_results)
                n == Len(graded_documents)
            IN  /\ Len(state.documents) = n + Len(results)
                /\ SubSeq(state.documents, 1, n) = graded_documents
                /\ \A j \in 1..Len(results) :
                      state.documents[n + j].page_content = results[j].content
                /\ \A k \in 1..Len(web_results) : Len(web_results[k]) <= MaxResults)
    /\ [][last \notin {"START", RETRIEVE} =>
            Len(state'.documents) >= Len(state.documents)]_vars

\* two searches, each returning results the other one returned too
C14_Witness ==
    /\ Len(web_results) = 2
    /\ Len(web_results[1]) >= 1
    /\ Len(web_results[2]) >= 2
    /\ Len(graded_documents) >= 1
    /\ last = GENERATE

\* C15: every document the web-search step appended has the result body as
\* content and, as metadata, exactly a source made of the result's title, a
\* newline and its URL, and the provider's score as relevance_score
C15_WebDocumentShape ==
    last = WEBSEARCH =>
        LET results == calls[1].output
            n == Len(state.documents) - Len(results)
        IN  \A j \in 1..Len(results) :
                state.documents[n + j] =
                    [page_content |-> results[j].content,
                     metadata |-> [source |-> <<results[j].title, "\n", results[j].url>>,
                                   relevance_score |-> results[j].score]]

\* a search returned as many results as the provider allows
C15_Witness ==
    /\ last = WEBSEARCH
    /\ Len(calls[1].output) = MaxResults
    /\ Len(graded_documents) = 0

-----------------------------------------------------------------------------
(* Routing as a function of the grader answers *)

\* the step after grading, from the relevance answers of the pass alone
AfterGrading(relevances) == IF FALSE \in relevances THEN {WEBSEARCH} ELSE {GENERATE}

\* the step after generation, from the two grader answers alone; the second
\* one is not asked for when the first is no
AfterGeneration(grounded, addresses) ==
    IF ~grounded THEN {GENERATE}
    ELSE IF addresses THEN {} ELSE {WEBSEARCH}

\* C16: in every reachable state the nodes scheduled after grading and after
\* generation are the value of one fixed function of the grader booleans of
\* that step; so two runs with the same grader answers take the same next
\* step, whatever their documents, question, history, earlier attempts and
\* earlier searches
C16_RoutingDeterministic ==
    /\ last = GRADE_DOCUMENTS =>
          active = AfterGrading({ calls[i].output.relevance : i \in 1..Len(calls) })
    /\ last = GENERATE =>
          \A addresses \in IF Len(calls) = 3
                           THEN {calls[3].output.binary_score}
                           ELSE BOOLEAN :
              active = AfterGeneration(calls[2].output.binary_score, addresses)

\* an answer that misses the question after an earlier search and an earlier
\* failed attempt
C16_Witness ==
    /\ last = GENERATE
    /\ decision = "not useful"
    /\ previous = [node |-> GENERATE, decision |-> "not supported"]
    /\ Len(web_results) = 1
    /\ state.chat_history # <<>>

-----------------------------------------------------------------------------
(* Properties of the generation step *)

\* C19: a GENERATE step changes nothing of the state but generation, which
\* becomes the answer the generation chain returned; the chain is given the
\* documents, the question and the rendered history and no earlier generation
C19_GenerateFrame ==
    [][last' = GENERATE =>
        /\ state'.documents = state.documents
        /\ state'.question = state.question
        /\ DOMAIN state' = DOMAIN state \cup {"generation"}
        /\ \A key \in DOMAIN state \ {"generation"} : state'[key] = state[key]
        /\ calls'[1].component = "generation_chain"
        /\ state'.generation = calls'[1].output
        /\ DOMAIN calls'[1].input = {"context", "question", "chat_history"}
        /\ calls'[1].input.context = state.documents
        /\ calls'[1].input.question = state.question]_vars

\* a retry whose answer the answer grader then saw
C19_Witness ==
    /\ last = GENERATE
    /\ previous = [node |-> GENERATE, decision |-> "not supported"]
    /\ state.generation = "answer-2"
    /\ Len(calls) = 3
    /\ calls[3].input.generation = "answer-2"

-----------------------------------------------------------------------------
(* A node called on its own, as web_search.py does under __main__: the node is
   a function from a state dictionary to the dictionary it returns *)

\* entries that qualify for the rendered history
GoodEntries == {[role |-> "user", content |-> "hello"],
                [role |-> "assistant", content |-> "hi"]}

\* entries that do not: another role, empty content, no content, no role
BadEntries == {[role |-> "system", content |-> "note"],
               [role |-> "user", content |-> ""],
               [role |-> "assistant"],
               [content |-> "lost"]}

\* histories of good entries mixed with one kind of bad entry
WideHistories ==
    UNION { SeqsUpTo(GoodEntries \cup {bad}, MaxHistory) : bad \in BadEntries }

\* document lists a caller may pass
InputDocuments == SeqsUpTo({ StoredDoc(hit.content) : hit \in StoreHits }, MaxRetrieved)

\* state dictionaries a node may be called with
NodeInputs ==
    { [question |-> q] : q \in Questions }
    \cup { [question |-> q, documents |-> None] : q \in Questions }
    \cup { [question |-> q, documents |-> d] : q \in Questions, d \in InputDocuments }
    \cup { [question |-> q, documents |-> <<>>, chat_history |-> h] :
              q \in Questions, h \in WideHistories }

NodeInit ==
    /\ state \in NodeInputs
    /\ active = {}
    /\ last = "START"
    /\ decision = "none"
    /\ calls = <<>>
    /\ web_results = <<>>
    /\ previous = [node |-> "START", decision |-> "none"]
    /\ graded_documents = <<>>

\* web_search(state) called on its own
CallWebSearch ==
    /\ last = "START"
    /\ \E tavily_results \in WebResponses :
          /\ state' = Merge(web_search(state, tavily_results), state)
          /\ calls' = <<[component |-> "web_search_tool", input |-> state.question,
                         output |-> tavily_results]>>
          /\ web_results' = Append(web_results, tavily_results)
    /\ last' = WEBSEARCH
    /\ UNCHANGED <<active, decision, graded_documents>>
    /\ Remember

\* generate(state) called on its own; it reads state["documents"]
CallGenerate ==
    /\ last = "START"
    /\ "documents" \in DOMAIN state
    /\ state.documents # None
    /\ \E answer \in Answers :
          /\ state' = Merge(generate(state, answer), state)
          /\ calls' = <<[component |-> "generation_chain",
                         input |-> GenerationInput(state),
                         output |-> answer]>>
    /\ last' = GENERATE
    /\ UNCHANGED <<active, decision, web_results, graded_documents>>
    /\ Remember

NodeNext == CallWebSearch \/ CallGenerate

NodeSpec == NodeInit /\ [][NodeNext]_vars

\* C13: after the web-search step the state holds a documents list, also when
\* the documents were absent or None before and the provider returned nothing
C13_DocumentsIsList ==
    last = WEBSEARCH =>
        /\ "documents" \in DOMAIN state
        /\ state.documents # None

-----------------------------------------------------------------------------
(* Properties of the rendered chat history *)

\* the chat history generate was called with, and what it rendered
GivenHistory == Get(state, "chat_history", <<>>)
Rendered == calls[1].input.chat_history

\* the positions of the last 6 entries
Window(h) == { i \in 1..Len(h) : i > Len(h) - HistoryWindow }

\* an entry with a role of user or assistant and a non-empty content
Qualifies(entry) ==
    /\ "role" \in DOMAIN entry
    /\ "content" \in DOMAIN entry
    /\ entry.role \in {"user", "assistant"}
    /\ entry.content # ""

\* the positions rendered: those of the window that qualify
KeptPositions(h) == { i \in Window(h) : Qualifies(h[i]) }

\* C17: the rendered history has one line for each qualifying entry among the
\* last 6 entries and no other line: entries before the window are never
\* rendered, and an entry without role or content, with empty content or with
\* another role is left out
C17_WindowThenFilter ==
    last = GENERATE /\ KeptPositions(GivenHistory) # {} =>
        LET h == GivenHistory
            kept == KeptPositions(h)
        IN  /\ Len(Rendered) = Cardinality(kept)
            /\ Len(Rendered) <= HistoryWindow
            /\ { Rendered[k].text : k \in 1..Len(Rendered) }
                  = { h[i].content : i \in kept }
            /\ \A k \in 1..Len(Rendered) : Rendered[k].speaker \in {"User", "Assistant"}

\* a qualifying entry lies before the window and the window holds a bad entry
C17_Witness ==
    /\ last = GENERATE
    /\ Len(GivenHistory) > HistoryWindow
    /\ Qualifies(GivenHistory[1])
    /\ \E i \in Window(GivenHistory) : ~Qualifies(GivenHistory[i])
    /\ Len(Rendered) = 4

\* the line of a qualifying entry
LineOf(entry) ==
    [speaker |-> IF entry.role = "user" THEN "User" ELSE "Assistant",
     text |-> entry.content]

\* the k-th smallest element of a set of positions
Nth(positions, k) ==
    CHOOSE i \in positions : Cardinality({ j \in positions : j <= i }) = k

\* C18: the rendered history lists the kept entries oldest first, each as a
\* User or Assistant line with its content, and it is the placeholder exactly
\* when the history is empty or absent or no entry of the last 6 qualifies
C18_OrderAndPlaceholder ==
    last = GENERATE =>
        LET h == GivenHistory
            kept == KeptPositions(h)
        IN  /\ kept # {} =>
                  Rendered = [k \in 1..Cardinality(kept) |-> LineOf(h[Nth(kept, k)])]
            /\ kept = {} => Rendered = NoConversation
            /\ Rendered = NoConversation => kept = {}
            /\ NoConversation = <<[speaker |-> "", text |-> "No previous conversation."]>>

\* an assistant line before a user line, from a history with excluded entries
C18_Witness ==
    /\ last = GENERATE
    /\ Len(Rendered) >= 2
    /\ Rendered[1].speaker = "Assistant"
    /\ Rendered[2].speaker = "User"
    /\ Len(GivenHistory) > Len(Rendered)

-----------------------------------------------------------------------------
(* Component failures: a component raises, or the relevance grader returns a
   dump without one of its fields *)

\* dumps of a grading response that lack a field
MalformedDumps ==
    { [relevance_score |-> s] : s \in RelScores }
    \cup { [relevance |-> b] : b \in BOOLEAN }

\* the GRADE_DOCUMENTS node when at least one grading response is malformed
GradeDocumentsMalformed ==
    /\ GRADE_DOCUMENTS \in active
    /\ \E scores \in [1..Len(state.documents) -> GraderResponses \cup MalformedDumps] :
          /\ \E i \in 1..Len(state.documents) : scores[i] \in MalformedDumps
          /\ LET new == Merge(grade_documents(state, scores), state)
                 label == decide_to_generate(new)
             IN  /\ state' = new
                 /\ graded_documents' = new.documents
                 /\ calls' = GradeCalls(state, scores)
                 /\ decision' = label
                 /\ active' = Scheduled(GRADE_DOCUMENTS, {GradeDocumentsPaths(label)})
    /\ last' = GRADE_DOCUMENTS
    /\ UNCHANGED web_results
    /\ Remember

\* a component called by the scheduled node raises: no node or router catches
\* the exception, the node returns no update and the invocation ends
ComponentRaises ==
    /\ \E node \in active :
          /\ last' = node
          /\ calls' = <<[component |-> "raised", input |-> node, output |-> "error"]>>
    /\ active' = {}
    /\ decision' = "raised"
    /\ UNCHANGED <<state, web_results, graded_documents>>
    /\ Remember

FaultNext == Next \/ GradeDocumentsMalformed \/ ComponentRaises

FaultSpec == Init /\ [][FaultNext]_vars

-----------------------------------------------------------------------------
(* The order of the steps, the caller's inputs, and the retrieval step *)

\* C22: RETRIEVE is the first step and runs once, GRADE_DOCUMENTS is the step
\* right after it and runs once, the step after every WEBSEARCH is GENERATE,
\* and until the run has ended exactly one node is scheduled
C22_StepOrder ==
    /\ [](Cardinality(active) <= 1)
    /\ [](Ended \/ Cardinality(active) = 1)
    /\ [](last = "START" => active = {RETRIEVE})
    /\ [](last = RETRIEVE => active = {GRADE_DOCUMENTS})
    /\ [](last = WEBSEARCH => active = {GENERATE})
    /\ [][/\ last' # "START"
          /\ last = "START" <=> last' = RETRIEVE
          /\ last = RETRIEVE <=> last' = GRADE_DOCUMENTS
          /\ last = WEBSEARCH => last' = GENERATE
          /\ last' \in active]_vars

\* a run that retrieved, graded, searched, generated, searched and generated again
C22_Witness ==
    /\ last = GENERATE
    /\ previous.node = WEBSEARCH
    /\ Len(web_results) = 2
    /\ "web_search" \in DOMAIN state
    /\ Ended

\* the caller's inputs
CallerKeys == {"question", "retriever", "chat_history"}

\* C23: no step changes question, retriever or chat_history: after every step
\* each is present with the value it had before the step
C23_InputsReadOnly ==
    [][\A key \in CallerKeys :
          /\ key \in DOMAIN state
          /\ key \in DOMAIN state'
          /\ state'[key] = state[key]]_vars

\* a retry and an escalation have happened and the history has entries
C23_Witness ==
    /\ last = GENERATE
    /\ previous = [node |-> GENERATE, decision |-> "not supported"]
    /\ Len(web_results) = 1
    /\ Len(state.chat_history) = 4
    /\ state.retriever.has_vectorstore
    /\ state.generation = "answer-1"

\* C25: with scored search the retrieval step asks for the configured result
\* count, or 4, and every document carries the score returned with it; without
\* scored search the documents are the plain results with no similarity
\* metadata; an empty result gives empty documents; GRADE_DOCUMENTS is next
C25_Retrieval ==
    last = RETRIEVE =>
        LET retriever == state.retriever
            call == calls[1]
            found == call.output
            documents == state.documents
        IN  /\ Len(calls) = 1
            /\ call.input = state.question
            /\ Len(documents) = Len(found)
            /\ found = <<>> => documents = <<>>
            /\ active = {GRADE_DOCUMENTS}
            /\ \A i \in 1..Len(found) : documents[i].page_content = found[i].content
            /\ retriever.has_vectorstore =>
                  /\ call.method = "similarity_search_with_score"
                  /\ call.k = IF "k" \in DOMAIN retriever.search_kwargs
                              THEN retriever.search_kwargs.k ELSE 4
                  /\ \A i \in 1..Len(found) :
                        documents[i].metadata.similarity_score = found[i].score
            /\ ~retriever.has_vectorstore =>
                  /\ call.method = "invoke"
                  /\ \A i \in 1..Len(found) :
                        "similarity_score" \notin DOMAIN documents[i].metadata

\* scored search with a configured count returned a document
C25_Witness ==
    /\ last = RETRIEVE
    /\ state.retriever.has_vectorstore
    /\ "k" \in DOMAIN state.retriever.search_kwargs
    /\ calls[1].k = 1
    /\ Len(state.documents) = 1
    /\ state.documents[1].metadata.similarity_score = calls[1].output[1].score

-----------------------------------------------------------------------------
(* Two invocations of the compiled graph whose steps interleave.  Here `state`
   maps each run to its record [state, active, last, decision, searches],
   `active` is the set of runs that have not ended and `last` the run that
   took the latest step; the module-level tools and chains are stateless and
   shared *)

Runs == {"run-1", "run-2"}

\* the question of each run
QuestionOf == [r \in Runs |->
                  IF r = "run-1" THEN "What is a vector database?"
                  ELSE "How are documents chunked?"]

\* a fresh retriever per invocation, with a configured result count
RunRetriever == [has_vectorstore |-> TRUE, search_kwargs |-> [k |-> 1]]

\* agent.invoke(input=...): the run's own state channel
NewRun(r) ==
    [state |-> [question |-> QuestionOf[r], retriever |-> RunRetriever,
                chat_history |-> <<>>],
     active |-> {EntryPoint}, last |-> "START", decision |-> "none", searches |-> 0]

\* the grader and provider answers explored for interleaved runs
PairGraderResponses == { g \in GraderResponses : g.relevance_score = "0.9" }
PairWebResponses == { w \in WebResponses : Len(w) <= 1 }

\* the runs after the RETRIEVE node of this run
RetrieveSteps(run) ==
    { [run EXCEPT !.state = Merge(retrieve(run.state, found), run.state),
                  !.active = Scheduled(RETRIEVE, {}),
                  !.last = RETRIEVE] :
        found \in RetrieverResults(run.state.retriever) }

\* the runs after GRADE_DOCUMENTS and decide_to_generate
GradeSteps(run) ==
    { LET new == Merge(grade_documents(run.state, scores), run.state)
          label == decide_to_generate(new)
      IN  [run EXCEPT !.state = new,
                      !.decision = label,
                      !.active = Scheduled(GRADE_DOCUMENTS, {GradeDocumentsPaths(label)}),
                      !.last = GRADE_DOCUMENTS] :
        scores \in [1..Len(run.state.documents) -> PairGraderResponses] }

\* the runs after GENERATE and the grading of the answer; one web search per
\* run is explored
GenerateSteps(run) ==
    { o \in
        { LET new == Merge(generate(run.state, choice[1]), run.state)
              graded == grade_generation_grounded_in_documents_and_question(
                            new, [binary_score |-> choice[2]],
                            [binary_score |-> choice[3]])
          IN  [run EXCEPT !.state = new,
                          !.decision = graded.label,
                          !.active = Scheduled(GENERATE, {GeneratePaths(graded.label)}),
                          !.last = GENERATE] :
            choice \in Answers \X BOOLEAN \X BOOLEAN } :
        o.decision = "not useful" => run.searches = 0 }

\* the runs after WEBSEARCH
SearchSteps(run) ==
    { [run EXCEPT !.state = Merge(web_search(run.state, tavily_results), run.state),
                  !.active = Scheduled(WEBSEARCH, {}),
                  !.last = WEBSEARCH,
                  !.searches = @ + 1] :
        tavily_results \in PairWebResponses }

\* every run this run can be after its next step, taken on its own
RunSteps(run) ==
    (IF RETRIEVE \in run.active THEN RetrieveSteps(run) ELSE {})
    \cup (IF GRADE_DOCUMENTS \in run.active THEN GradeSteps(run) ELSE {})
    \cup (IF GENERATE \in run.active THEN GenerateSteps(run) ELSE {})
    \cup (IF WEBSEARCH \in run.active THEN SearchSteps(run) ELSE {})

\* a slip: the documents live in one module-level list that every run holds
InvokeWrites_shared_documents(runs, r, after) ==
    [o \in DOMAIN runs |->
        IF o = r THEN after
        ELSE IF "documents" \in DOMAIN runs[o].state
             THEN [runs[o] EXCEPT !.state.documents = after.state.documents]
             ELSE runs[o]]

\* a node's update is written to the state channel of the run it belongs to
InvokeWrites(runs, r, after) == [runs EXCEPT ![r] = after]

PairInit ==
    /\ state = [r \in Runs |-> NewRun(r)]
    /\ active = Runs
    /\ last = "none"
    /\ decision = "none"
    /\ calls = <<>>
    /\ web_results = <<>>
    /\ previous = [node |-> "START", decision |-> "none"]
    /\ graded_documents = <<>>

\* run r takes the step of `node`: one of the successors computed by `steps`
PairStep(r, node, steps) ==
    /\ node \in state[r].active
    /\ \E after \in steps :
          /\ state' = InvokeWrites(state, r, after)
          /\ active' = { o \in Runs : state'[o].active # {} }
    /\ last' = r
    /\ UNCHANGED <<decision, calls, web_results, previous, graded_documents>>

PairRetrieve == \E r \in Runs : PairStep(r, RETRIEVE, RetrieveSteps(state[r]))
PairGradeDocuments == \E r \in Runs : PairStep(r, GRADE_DOCUMENTS, GradeSteps(state[r]))
PairGenerate == \E r \in Runs : PairStep(r, GENERATE, GenerateSteps(state[r]))
PairWebSearch == \E r \in Runs : PairStep(r, WEBSEARCH, SearchSteps(state[r]))

PairNext == PairRetrieve \/ PairGradeDocuments \/ PairGenerate \/ PairWebSearch

PairSpec == PairInit /\ [][PairNext]_vars

-----------------------------------------------------------------------------
(* grade_documents called on the same documents in two evaluation orders: the
   order of the list as given, whose result is kept in `previous`, and a
   permutation of it, whose result is merged into `state` *)

\* the documents that may be graded, as the retrieval step leaves them
GradePool ==
    { WithSimilarity(StoredDoc(hit.content), hit.score) :
        hit \in StoreHits \cup {[content |-> "chunk-c", score |-> "0.77"]} }

\* lists of distinct documents of the pool
GradeLists ==
    { l \in SeqsUpTo(GradePool, Cardinality(GradePool)) :
        \A i, j \in 1..Len(l) : l[i] = l[j] => i = j }

\* the permutations of 1..n
EvaluationOrders(n) ==
    { f \in [1..n -> 1..n] : \A i, j \in 1..n : f[i] = f[j] => i = j }

OrderInit ==
    /\ \E q \in Questions, l \in GradeLists : state = [question |-> q, documents |-> l]
    /\ active = {}
    /\ last = "START"
    /\ decision = "none"
    /\ calls = <<>>
    /\ web_results = <<>>
    /\ previous = [node |-> "START", decision |-> "none"]
    /\ graded_documents = <<>>

\* the grader answers for each document what `grader` holds for its content,
\* whenever it is asked
CallGradeDocuments ==
    /\ last = "START"
    /\ \E grader \in [{ d.page_content : d \in GradePool } -> GraderResponses],
          order \in EvaluationOrders(Len(state.documents)) :
          LET given == state.documents
              evaluated == [i \in 1..Len(given) |-> given[order[i]]]
              reordered == [state EXCEPT !.documents = evaluated]
              ScoresOf(l) == [i \in 1..Len(l) |-> grader[l[i].page_content]]
          IN  /\ previous' = grade_documents(state, ScoresOf(given))
              /\ state' = Merge(grade_documents(reordered, ScoresOf(evaluated)), state)
              /\ calls' = GradeCalls(reordered, ScoresOf(evaluated))
              /\ graded_documents' = given
    /\ last' = GRADE_DOCUMENTS
    /\ UNCHANGED <<active, decision, web_results>>

OrderNext == CallGradeDocuments

OrderSpec == OrderInit /\ [][OrderNext]_vars

\* the elements of a sequence
Elements(l) == { l[i] : i \in 1..Len(l) }

\* both evaluation orders keep the same documents with the same
\* relevance_score values and give the same web_search flag
SameSurvivors ==
    /\ Elements(state.documents) = Elements(previous.documents)
    /\ Len(state.documents) = Len(previous.documents)
    /\ state.web_search = previous.web_search

-----------------------------------------------------------------------------
(* database/crud.py over database/models.py.  Here `state` is the database:
   the rows of the three tables and the next primary key of each; `previous`
   is the database before the latest operation, `calls` holds that operation
   with its arguments and what it returned, and `last` is its name *)

Names == {"alpha", "beta"}
Descriptions == {"first notes", "other notes"}
Titles == {"report.pdf"}
Types == {"pdf"}

\* the ids lists a caller passes: the vector store ids of a document's chunks,
\* the first two alike
ChunkIds == [i \in 1..MaxIds |-> IF i <= 2 THEN "chunk1" ELSE "chunk2"]
IdLists == { SubSeq(ChunkIds, 1, n) : n \in 0..MaxIds }

\* the tables after create_all, before any operation
EmptyDb ==
    [collections |-> {}, sources |-> {}, documentsids |-> {},
     next |-> [collections |-> 1, sources |-> 1, documentsids |-> 1]]

\* session.query(models.Collection).filter_by(name=name): the matching rows
CollectionsNamed(db, name) == { c \in db.collections : c.name = name }

\* session.query(models.Source).filter_by(id=source_id): the matching rows
SourcesWithId(db, source_id) == { src \in db.sources : src.id = source_id }

\* collection.sources and source.ids, the relationships of models.py
SourcesOf(db, collection) == { src \in db.sources : src.collection_id = collection.id }
IdsOf(db, source) == { d \in db.documentsids : d.source_id = source.id }

\* a slip: an existing collection takes the new description
create_collection_overwrites(db, name, description) ==
    IF CollectionsNamed(db, name) # {}
    THEN [db |-> [db EXCEPT !.collections =
                     { IF c.name = name THEN [c EXCEPT !.description = description]
                       ELSE c : c \in @ }],
          returned |-> [kind |-> "Collection"]]
    ELSE [db |-> [db EXCEPT !.collections = @ \cup
                     {[id |-> db.next.collections, name |-> name,
                       description |-> description,
                       document_count |-> 0, chunks_count |-> 0]},
                  !.next.collections = @ + 1],
          returned |-> [kind |-> "Collection"]]

\* create_collection(name, description): the database after the call (after
\* the rollback when it raised) and what the caller got
create_collection(db, name, description) ==
    IF CollectionsNamed(db, name) # {}
    THEN [db |-> db, returned |-> [kind |-> "IntegrityError"]]
    ELSE LET new_collection ==
                 [id |-> db.next.collections, name |-> name,
                  description |-> description,
                  document_count |-> 0, chunks_count |-> 0]
         IN  [db |-> [db EXCEPT !.collections = @ \cup {new_collection},
                                !.next.collections = @ + 1],
              returned |-> [kind |-> "Collection", row |-> new_collection]]

\* the DocumentsIds rows added for ids, one per element
NewIds(db, source_id, ids) ==
    { [id |-> db.next.documentsids + i - 1, value |-> ids[i], source_id |-> source_id] :
        i \in 1..Len(ids) }

\* a slip: one record per distinct value, counted as one chunk
create_source_one_per_value(db, title, type, collection_name, ids) ==
    IF CollectionsNamed(db, collection_name) = {}
    THEN [db |-> db, returned |-> [kind |-> "None"]]
    ELSE LET collection == CHOOSE c \in CollectionsNamed(db, collection_name) : TRUE
             new_source == [id |-> db.next.sources, title |-> title, type |-> type,
                            collection_id |-> collection.id]
             values == { ids[i] : i \in 1..Len(ids) }
             rows == { [id |-> db.next.documentsids, value |-> v,
                        source_id |-> new_source.id] : v \in values }
         IN  [db |-> [db EXCEPT
                         !.sources = @ \cup {new_source},
                         !.collections = (@ \ {collection}) \cup
                             {[collection EXCEPT !.document_count = @ + 1,
                                                 !.chunks_count = @ + 1]},
                         !.documentsids = @ \cup rows,
                         !.next.sources = @ + 1,
                         !.next.documentsids = @ + Len(ids)],
              returned |-> [kind |-> "Source", row |-> new_source]]

\* a slip: a missing collection is created on the way
create_source_creates_collection(db, title, type, collection_name, ids) ==
    LET made == IF CollectionsNamed(db, collection_name) = {}
                THEN create_collection(db, collection_name, "").db
                ELSE db
        collection == CHOOSE c \in CollectionsNamed(made, collection_name) : TRUE
        new_source == [id |-> made.next.sources, title |-> title, type |-> type,
                       collection_id |-> collection.id]
    IN  [db |-> [made EXCEPT
                    !.sources = @ \cup {new_source},
                    !.collections = (@ \ {collection}) \cup
                        {[collection EXCEPT !.document_count = @ + 1,
                                            !.chunks_count = @ + Len(ids)]},
                    !.documentsids = @ \cup NewIds(made, new_source.id, ids),
                    !.next.sources = @ + 1,
                    !.next.documentsids = @ + Len(ids)],
         returned |-> [kind |-> "Source", row |-> new_source]]

\* create_source_and_add_to_collection(title, type, collection_name, ids)
create_source_and_add_to_collection(db, title, type, collection_name, ids) ==
    IF CollectionsNamed(db, collection_name) = {}
    THEN [db |-> db, returned |-> [kind |-> "None"]]
    ELSE LET collection == CHOOSE c \in CollectionsNamed(db, collection_name) : TRUE
             new_source == [id |-> db.next.sources, title |-> title, type |-> type,
                            collection_id |-> collection.id]
         IN  [db |-> [db EXCEPT
                         !.sources = @ \cup {new_source},
                         !.collections = (@ \ {collection}) \cup
                             {[collection EXCEPT !.document_count = @ + 1,
                                                 !.chunks_count = @ + Len(ids)]},
                         !.documentsids = @ \cup NewIds(db, new_source.id, ids),
                         !.next.sources = @ + 1,
                         !.next.documentsids = @ + Len(ids)],
              returned |-> [kind |-> "Source", row |-> new_source]]

\* a slip: the sources go with the collection, their document ids stay
delete_collection_keeps_ids(db, collection_name) ==
    IF CollectionsNamed(db, collection_name) = {}
    THEN [db |-> db, returned |-> [kind |-> "None"]]
    ELSE LET collection == CHOOSE c \in CollectionsNamed(db, collection_name) : TRUE
         IN  [db |-> [db EXCEPT !.collections = @ \ {collection},
                                !.sources = @ \ SourcesOf(db, collection)],
              returned |-> [kind |-> "None"]]

\* delete_collection(collection_name): session.delete(collection) with the
\* cascades of Collection.sources and Source.ids
delete_collection(db, collection_name) ==
    IF CollectionsNamed(db, collection_name) = {}
    THEN [db |-> db, returned |-> [kind |-> "None"]]
    ELSE LET collection == CHOOSE c \in CollectionsNamed(db, collection_name) : TRUE
             gone == SourcesOf(db, collection)
         IN  [db |-> [db EXCEPT !.collections = @ \ {collection},
                                !.sources = @ \ gone,
                                !.documentsids =
                                    @ \ UNION { IdsOf(db, src) : src \in gone }],
              returned |-> [kind |-> "None"]]

\* the collections after source.collection.document_count -= 1
AfterCountDown(db, source) ==
    { IF c.id = source.collection_id THEN [c EXCEPT !.document_count = @ - 1] ELSE c :
        c \in db.collections }

\* a slip: the source goes, its document ids stay
delete_source_keeps_ids(db, source_id) ==
    IF SourcesWithId(db, source_id) = {}
    THEN [db |-> db, returned |-> [kind |-> "None"]]
    ELSE LET source == CHOOSE src \in SourcesWithId(db, source_id) : TRUE
         IN  [db |-> [db EXCEPT !.collections = AfterCountDown(db, source),
                                !.sources = @ \ {source}],
              returned |-> [kind |-> "None"]]

\* a slip: an unknown id deletes the oldest source
delete_source_falls_back(db, source_id) ==
    IF SourcesWithId(db, source_id) = {} /\ db.sources = {}
    THEN [db |-> db, returned |-> [kind |-> "None"]]
    ELSE LET source == IF SourcesWithId(db, source_id) # {}
                       THEN CHOOSE src \in SourcesWithId(db, source_id) : TRUE
                       ELSE CHOOSE src \in db.sources :
                                \A other \in db.sources : src.id <= other.id
         IN  [db |-> [db EXCEPT !.collections = AfterCountDown(db, source),
                                !.sources = @ \ {source},
                                !.documentsids = @ \ IdsOf(db, source)],
              returned |-> [kind |-> "None"]]

\* delete_source(source_id): session.delete(source) with the cascade of
\* Source.ids
delete_source(db, source_id) ==
    IF SourcesWithId(db, source_id) = {}
    THEN [db |-> db, returned |-> [kind |-> "None"]]
    ELSE LET source == CHOOSE src \in SourcesWithId(db, source_id) : TRUE
         IN  [db |-> [db EXCEPT !.collections = AfterCountDown(db, source),
                                !.sources = @ \ {source},
                                !.documentsids = @ \ IdsOf(db, source)],
              returned |-> [kind |-> "None"]]

\* get_all_source_in_collection(collection_name)
get_all_source_in_collection(db, collection_name) ==
    IF CollectionsNamed(db, collection_name) = {} THEN {}
    ELSE SourcesOf(db, CHOOSE c \in CollectionsNamed(db, collection_name) : TRUE)

\* get_all_ids_in_source(source_id)
get_all_ids_in_source(db, source_id) ==
    IF SourcesWithId(db, source_id) = {} THEN {}
    ELSE IdsOf(db, CHOOSE src \in SourcesWithId(db, source_id) : TRUE)

DbInit ==
    /\ state = EmptyDb
    /\ previous = EmptyDb
    /\ last = "START"
    /\ calls = <<>>
    /\ active = {}
    /\ decision = "none"
    /\ web_results = <<>>
    /\ graded_documents = <<>>

\* what every operation leaves behind
Committed(operation, arguments, result) ==
    /\ state' = result.db
    /\ previous' = state
    /\ calls' = <<[operation |-> operation, arguments |-> arguments,
                   returned |-> result.returned]>>
    /\ last' = operation
    /\ UNCHANGED <<active, decision, web_results, graded_documents>>

CreateCollection ==
    /\ state.next.collections <= MaxCollections
    /\ \E name \in Names, description \in Descriptions :
          Committed("create_collection",
                    [name |-> name, description |-> description],
                    create_collection(state, name, description))

CreateSource ==
    /\ state.next.sources <= MaxSources
    /\ \E title \in Titles, type \in Types, collection_name \in Names,
          ids \in IdLists :
          Committed("create_source_and_add_to_collection",
                    [title |-> title, type |-> type,
                     collection_name |-> collection_name, ids |-> ids],
                    create_source_and_add_to_collection(
                        state, title, type, collection_name, ids))

DeleteCollection ==
    \E collection_name \in Names :
        Committed("delete_collection", [collection_name |-> collection_name],
                  delete_collection(state, collection_name))

DeleteSource ==
    \E source_id \in 1..MaxSources :
        Committed("delete_source", [source_id |-> source_id],
                  delete_source(state, source_id))

DbNext == CreateCollection \/ CreateSource \/ DeleteCollection \/ DeleteSource

DbSpec == DbInit /\ [][DbNext]_vars


\* the latest operation, its arguments and what it returned
Operation == calls[1]

\* C26: create_collection with a name that exists raises IntegrityError and
\* leaves every table as it was, and in every state no two collections have
\* the same name
C26_DuplicateNameRejected ==
    /\ \A c1, c2 \in state.collections : c1.name = c2.name => c1 = c2
    /\ (last = "create_collection"
        /\ CollectionsNamed(previous, Operation.arguments.name) # {}) =>
            /\ Operation.returned.kind = "IntegrityError"
            /\ state = previous

\* a duplicate was refused for a collection that has a source, with another
\* description than the stored one
C26_Witness ==
    /\ last = "create_collection"
    /\ Operation.returned.kind = "IntegrityError"
    /\ \E c \in state.collections :
          /\ c.name = Operation.arguments.name
          /\ c.description # Operation.arguments.description
          /\ c.chunks_count = 2
          /\ SourcesOf(state, c) # {}

\* C27: after delete_collection of an existing collection the collection, its
\* sources and their document ids are gone and every other row is unchanged
C27_DeleteCollectionCascades ==
    (last = "delete_collection"
     /\ CollectionsNamed(previous, Operation.arguments.collection_name) # {}) =>
        LET name == Operation.arguments.collection_name
            collection == CHOOSE c \in CollectionsNamed(previous, name) : TRUE
            gone == { src \in previous.sources : src.collection_id = collection.id }
        IN  /\ CollectionsNamed(state, name) = {}
            /\ get_all_source_in_collection(state, name) = {}
            /\ \A src \in gone :
                  /\ src \notin state.sources
                  /\ get_all_ids_in_source(state, src.id) = {}
                  /\ \A d \in state.documentsids : d.source_id # src.id
            /\ state.collections = previous.collections \ {collection}
            /\ state.sources = previous.sources \ gone
            /\ state.documentsids =
                  { d \in previous.documentsids : \A src \in gone : d.source_id # src.id }

\* a collection with a source and ids was deleted while another collection
\* with a source and ids stayed
C27_Witness ==
    /\ last = "delete_collection"
    /\ \E c \in previous.collections :
          /\ c.name = Operation.arguments.collection_name
          /\ \E src \in SourcesOf(previous, c) : IdsOf(previous, src) # {}
    /\ \E c \in state.collections :
          \E src \in SourcesOf(state, c) : IdsOf(state, src) # {}

\* C28: create_source_and_add_to_collection on an existing collection adds one
\* source to it with one document id record per element of ids, and raises the
\* collection's document_count by 1 and its chunks_count by len(ids)
C28_CreateSource ==
    (last = "create_source_and_add_to_collection"
     /\ CollectionsNamed(previous, Operation.arguments.collection_name) # {}) =>
        LET name == Operation.arguments.collection_name
            ids == Operation.arguments.ids
            before == CHOOSE c \in CollectionsNamed(previous, name) : TRUE
            added == state.sources \ previous.sources
        IN  /\ Cardinality(added) = 1
            /\ previous.sources \subseteq state.sources
            /\ Operation.returned.kind = "Source"
            /\ \A src \in added :
                  /\ src \in get_all_source_in_collection(state, name)
                  /\ src.collection_id = before.id
                  /\ Cardinality(get_all_ids_in_source(state, src.id)) = Len(ids)
                  /\ \A v \in { ids[i] : i \in 1..Len(ids) } :
                        Cardinality({ d \in get_all_ids_in_source(state, src.id) :
                                        d.value = v })
                           = Cardinality({ i \in 1..Len(ids) : ids[i] = v })
                  /\ state.documentsids \ previous.documentsids
                        = get_all_ids_in_source(state, src.id)
            /\ \E after \in CollectionsNamed(state, name) :
                  /\ after.id = before.id
                  /\ after.document_count = before.document_count + 1
                  /\ after.chunks_count = before.chunks_count + Len(ids)

\* a second source with two equal ids was added to a collection
C28_Witness ==
    /\ last = "create_source_and_add_to_collection"
    /\ Operation.returned.kind = "Source"
    /\ Len(Operation.arguments.ids) = 2
    /\ Operation.arguments.ids[1] = Operation.arguments.ids[2]
    /\ \E c \in state.collections :
          /\ c.name = Operation.arguments.collection_name
          /\ c.document_count = 2
          /\ c.chunks_count = 3

\* C29: create_source_and_add_to_collection for a collection name that does
\* not exist returns None and leaves every table and counter as it was
C29_MissingCollection ==
    (last = "create_source_and_add_to_collection"
     /\ CollectionsNamed(previous, Operation.arguments.collection_name) = {}) =>
        /\ Operation.returned.kind = "None"
        /\ state.sources = previous.sources
        /\ state.documentsids = previous.documentsids
        /\ state.collections = previous.collections

\* a source with ids was asked for a missing collection while another exists
C29_Witness ==
    /\ last = "create_source_and_add_to_collection"
    /\ Operation.returned.kind = "None"
    /\ Len(Operation.arguments.ids) = 2
    /\ state.collections # {}
    /\ state.sources # {}

\* C30: after delete_source of an existing source the source and its document
\* id records are gone, and the other sources and their ids are unchanged
C30_DeleteSourceCascades ==
    (last = "delete_source"
     /\ SourcesWithId(previous, Operation.arguments.source_id) # {}) =>
        LET source_id == Operation.arguments.source_id
            source == CHOOSE src \in SourcesWithId(previous, source_id) : TRUE
        IN  /\ \A name \in Names : source \notin get_all_source_in_collection(state, name)
            /\ get_all_ids_in_source(state, source_id) = {}
            /\ \A d \in state.documentsids : d.source_id # source_id
            /\ state.sources = previous.sources \ {source}
            /\ \A other \in state.sources : IdsOf(state, other) = IdsOf(previous, other)

\* one of two sources of a collection was deleted, both had ids
C30_Witness ==
    /\ last = "delete_source"
    /\ \E source \in SourcesWithId(previous, Operation.arguments.source_id) :
          /\ IdsOf(previous, source) # {}
          /\ \E other \in state.sources :
                /\ other.collection_id = source.collection_id
                /\ IdsOf(state, other) # {}


\* C31: in every state of the database each collection's document_count is
\* the number of its sources and its chunks_count the number of document ids
\* of those sources, and neither counter is negative
C31_CountersMatch ==
    \A c \in state.collections :
        /\ c.document_count = Cardinality(SourcesOf(state, c))
        /\ c.chunks_count =
              Cardinality(UNION { IdsOf(state, src) : src \in SourcesOf(state, c) })
        /\ c.document_count >= 0
        /\ c.chunks_count >= 0


\* C33: delete_collection with an unknown name and delete_source with an
\* unknown id return without error and leave the database as it was, and the
\* two listings are empty for an unknown collection or source
C33_UnknownIsNoOp ==
    /\ (last = "delete_collection"
        /\ CollectionsNamed(previous, Operation.arguments.collection_name) = {}) =>
            /\ Operation.returned.kind = "None"
            /\ state = previous
    /\ (last = "delete_source"
        /\ SourcesWithId(previous, Operation.arguments.source_id) = {}) =>
            /\ Operation.returned.kind = "None"
            /\ state = previous
    /\ \A name \in Names :
          CollectionsNamed(state, name) = {} =>
              get_all_source_in_collection(state, name) = {}
    /\ \A source_id \in 1..MaxSources :
          SourcesWithId(state, source_id) = {} =>
              get_all_ids_in_source(state, source_id) = {}

\* an unknown source id was deleted from a database that holds another source
\* with ids, and a collection name is unknown
C33_Witness ==
    /\ last = "delete_source"
    /\ SourcesWithId(previous, Operation.arguments.source_id) = {}
    /\ \E src \in state.sources : IdsOf(state, src) # {}
    /\ \E name \in Names : CollectionsNamed(state, name) = {}

-----------------------------------------------------------------------------
(* The flag the chat page shows with the answer *)

\* result.get("used_web_search", False) on the state agent.invoke returned
UsedWebSearch(result) == Get(result, "used_web_search", FALSE)

\* C35: when the run has ended, the flag surfaced with the answer is true
\* exactly when WEBSEARCH ran at least once
C35_FlagIffSearched ==
    Ended => (UsedWebSearch(state) <=> Len(web_results) >= 1)

-----------------------------------------------------------------------------
(* The db_operation wrapper, one call at a time.  Here `state` holds the
   committed tables (db), the tables as the open session sees them (pending),
   whether a session is open, and the session calls made by the current
   operation (log); `calls` holds the operation, `previous` the committed
   tables when it began, `decision` how it came back to the caller and `last`
   the point the wrapper has reached *)

\* the operations called in this part, with their read_only flag
SessionOperations ==
    { [operation |-> "create_collection", read_only |-> FALSE,
       arguments |-> [name |-> "alpha", description |-> d]] : d \in Descriptions }
    \cup { [operation |-> "create_source_and_add_to_collection", read_only |-> FALSE,
            arguments |-> [title |-> t, type |-> ty, collection_name |-> "alpha",
                           ids |-> ids]] :
             t \in Titles, ty \in Types, ids \in IdLists }
    \cup { [operation |-> "delete_collection", read_only |-> FALSE,
            arguments |-> [collection_name |-> "alpha"]] }
    \cup { [operation |-> "delete_source", read_only |-> FALSE,
            arguments |-> [source_id |-> i]] : i \in 1..MaxSources }
    \cup { [operation |-> "get_all_source_in_collection", read_only |-> TRUE,
            arguments |-> [collection_name |-> "alpha"]] }
    \cup { [operation |-> "get_all_ids_in_source", read_only |-> TRUE,
            arguments |-> [source_id |-> i]] : i \in 1..MaxSources }

\* func(session, *args, **kwargs) run to its end on the tables the session sees
RunFunction(op, db) ==
    CASE op.operation = "create_collection" ->
            create_collection(db, op.arguments.name, op.arguments.description)
      [] op.operation = "create_source_and_add_to_collection" ->
            create_source_and_add_to_collection(
                db, op.arguments.title, op.arguments.type,
                op.arguments.collection_name, op.arguments.ids)
      [] op.operation = "delete_collection" ->
            delete_collection(db, op.arguments.collection_name)
      [] op.operation = "delete_source" ->
            delete_source(db, op.arguments.source_id)
      [] OTHER -> [db |-> db, returned |-> [kind |-> "rows"]]

\* the tables the session sees when func raises a database error on the way:
\* before any change, or for a new source after its row was flushed and before
\* its document ids were added
TablesAtFailure(op, db) ==
    {db} \cup
    (IF /\ op.operation = "create_source_and_add_to_collection"
        /\ CollectionsNamed(db, op.arguments.collection_name) # {}
     THEN { [db EXCEPT !.sources = @ \cup
                 {[id |-> db.next.sources, title |-> op.arguments.title,
                   type |-> op.arguments.type,
                   collection_id |->
                       (CHOOSE c \in CollectionsNamed(db, op.arguments.collection_name) :
                            TRUE).id]},
                       !.next.sources = @ + 1] }
     ELSE {})

\* session.commit()
SessionCommit(st) == [st EXCEPT !.db = st.pending, !.log = Append(@, "commit")]

\* session.rollback()
SessionRollback(st) == [st EXCEPT !.pending = st.db, !.log = Append(@, "rollback")]

\* session.close(): what was not committed is dropped
SessionClose(st) ==
    [st EXCEPT !.pending = st.db, !.open = FALSE, !.log = Append(@, "close")]

\* a slip: the except branch commits what the session holds
HandleException_commits(st) == SessionCommit(st)

\* the except branches: session.rollback() before the error is raised again
HandleException(st) == SessionRollback(st)

SessionInit ==
    /\ state = [db |-> EmptyDb, pending |-> EmptyDb, open |-> FALSE, log |-> <<>>]
    /\ previous = EmptyDb
    /\ last = "idle"
    /\ calls = <<>>
    /\ decision = "none"
    /\ active = {}
    /\ web_results = <<>>
    /\ graded_documents = <<>>

SessionFrame == UNCHANGED <<active, web_results, graded_documents>>

\* session = connection.Session()
OpenSession ==
    /\ last \in {"idle", "returned", "raised"}
    /\ \E op \in SessionOperations :
          /\ op.operation = "create_collection"
                => state.db.next.collections <= MaxCollections
          /\ op.operation = "create_source_and_add_to_collection"
                => state.db.next.sources <= MaxSources
          /\ calls' = <<op>>
    /\ state' = [state EXCEPT !.pending = state.db, !.open = TRUE,
                              !.log = <<"Session()">>]
    /\ previous' = state.db
    /\ decision' = "none"
    /\ last' = "opened"
    /\ SessionFrame

\* result = func(session, *args, **kwargs): it returns, or it raises
\* IntegrityError itself, or the database raises on the way
ExecuteFunction ==
    /\ last = "opened"
    /\ LET result == RunFunction(calls[1], state.pending)
       IN  \/ /\ result.returned.kind # "IntegrityError"
              /\ state' = [state EXCEPT !.pending = result.db]
              /\ decision' = "none"
              /\ last' = "executed"
           \/ /\ result.returned.kind = "IntegrityError"
              /\ state' = state
              /\ decision' = "IntegrityError"
              /\ last' = "failed"
           \/ /\ \E tables \in TablesAtFailure(calls[1], state.pending) :
                    state' = [state EXCEPT !.pending = tables]
              /\ decision' = "SQLAlchemyError"
              /\ last' = "failed"
    /\ UNCHANGED <<calls, previous>>
    /\ SessionFrame

\* if not read_only: session.commit(), which may raise
CommitOrSkip ==
    /\ last = "executed"
    /\ \/ /\ ~calls[1].read_only
          /\ state' = SessionCommit(state)
          /\ decision' = "none"
          /\ last' = "completed"
       \/ /\ ~calls[1].read_only
          /\ state' = [state EXCEPT !.log = Append(@, "commit")]
          /\ decision' = "SQLAlchemyError"
          /\ last' = "failed"
       \/ /\ calls[1].read_only
          /\ state' = state
          /\ decision' = "none"
          /\ last' = "completed"
    /\ UNCHANGED <<calls, previous>>
    /\ SessionFrame

\* except ...: session.rollback(); raise
Handle ==
    /\ last = "failed"
    /\ state' = HandleException(state)
    /\ last' = "handled"
    /\ UNCHANGED <<calls, previous, decision>>
    /\ SessionFrame

\* finally: session.close(), then the result or the error reaches the caller
CloseSession ==
    /\ last \in {"completed", "handled"}
    /\ state' = SessionClose(state)
    /\ last' = IF last = "completed" THEN "returned" ELSE "raised"
    /\ UNCHANGED <<calls, previous, decision>>
    /\ SessionFrame

SessionNext == OpenSession \/ ExecuteFunction \/ CommitOrSkip \/ Handle \/ CloseSession

SessionSpec == SessionInit /\ [][SessionNext]_vars

\* how often a session call appears in the log
Times(call) == Cardinality({ i \in 1..Len(state.log) : state.log[i] = call })

\* C32: an operation opens a session of its own; committed tables are at every
\* moment those from before the operation or those the completed function
\* leaves; a write that returned has committed them, an operation that raised
\* has rolled back, left the tables as before and handed the error it met to
\* the caller; a read-only operation never commits; the session is closed
\* when the operation comes back
C32_AllOrNothing ==
    /\ last # "idle" =>
          /\ state.log[1] = "Session()"
          /\ Times("Session()") = 1
          /\ state.db \in {previous, RunFunction(calls[1], previous).db}
          /\ calls[1].read_only => (Times("commit") = 0 /\ state.db = previous)
    /\ last = "returned" =>
          /\ ~state.open
          /\ state.log[Len(state.log)] = "close"
          /\ Times("close") = 1
          /\ Times("rollback") = 0
          /\ decision = "none"
          /\ state.db = RunFunction(calls[1], previous).db
          /\ ~calls[1].read_only => Times("commit") = 1
    /\ last = "raised" =>
          /\ ~state.open
          /\ state.log[Len(state.log)] = "close"
          /\ Times("close") = 1
          /\ Times("rollback") = 1
          /\ decision \in {"IntegrityError", "SQLAlchemyError"}
          /\ state.db = previous
          /\ state.pending = previous
    /\ last \notin {"idle", "returned", "raised"} => state.open

\* a new source raised after its row was flushed, with a collection in place
C32_Witness ==
    /\ last = "raised"
    /\ decision = "SQLAlchemyError"
    /\ calls[1].operation = "create_source_and_add_to_collection"
    /\ Len(calls[1].arguments.ids) = 2
    /\ state.db.collections # {}
    /\ state.db.sources # {}
    /\ state.db.next.sources = 2

-----------------------------------------------------------------------------
(* Ingestion, the management page and the vector store manager.  Here `state`
   holds the database (db), the chunks in the vector store (store, pairs of
   collection and chunk id) and the next chunk id the store hands out;
   `previous` is that state before the latest operation and `calls` holds the
   operation with its arguments, what it returned and the calls it made on the
   underlying store *)

\* the backends the manager knows, and the values config.backend may hold
SupportedBackends == {"chroma", "pinecone", "pgvector"}
Backends == SupportedBackends \cup {"unsupported"}

\* the collection the pages of this part work on
AppNames == {"alpha"}

\* what add_documents did for each batch of an upload: TRUE when the batch was
\* stored, FALSE when it raised; one chunk per batch
BatchOutcomes == SeqsUpTo(BOOLEAN, MaxIds) \ {<<>>}

\* the positions of the batches that were stored
RECURSIVE StoredBatches(_, _)
StoredBatches(batches, i) ==
    IF i > Len(batches) THEN <<>>
    ELSE (IF batches[i] THEN <<i>> ELSE <<>>) \o StoredBatches(batches, i + 1)

\* index_documents(collection_name, documents, ..., name, type): the loop over
\* the batches, the database update and the returned count
index_documents(app, collection_name, batches, name, type) ==
    LET good == StoredBatches(batches, 1)
        ids == [k \in 1..Len(good) |-> app.next_chunk + k - 1]
        stored == [app EXCEPT
                      !.store = @ \cup { [collection |-> collection_name, id |-> ids[k]] :
                                           k \in 1..Len(ids) },
                      !.next_chunk = @ + Len(ids)]
    IN  [app |-> IF ids # <<>>
                 THEN [stored EXCEPT !.db = create_source_and_add_to_collection(
                                               @, name, type, collection_name, ids).db]
                 ELSE stored,
         ids |-> ids,
         returned |-> [kind |-> "int", value |-> Len(ids)]]

\* process_documents(file, collection_name, ...): loaded is FALSE when
\* load_document raised
process_documents(app, loaded, collection_name, batches) ==
    IF loaded
    THEN index_documents(app, collection_name, batches, "report.pdf", "pdf")
    ELSE [app |-> app, ids |-> <<>>, returned |-> [kind |-> "int", value |-> 0]]

\* process_url(url, collection_name, ...): crawl is "results" when the crawl
\* returned pages, "empty" when it returned none, "raises" when it raised
process_url(app, crawl, collection_name, batches) ==
    IF crawl = "results"
    THEN index_documents(app, collection_name, batches, "https://example.org", "webpage")
    ELSE [app |-> app, ids |-> <<>>, returned |-> [kind |-> "None"]]

\* a slip: an unknown backend is treated as chroma
vs_delete_documents_defaults(app, backend, collection_name, ids) ==
    IF backend = "pinecone"
    THEN [app |-> [app EXCEPT !.store = { c \in @ : ~(c.collection = collection_name
                                                      /\ c.id \in ids) }],
          store_calls |-> <<[target |-> "vectorstore._index", method |-> "delete"]>>,
          returned |-> [kind |-> "None"]]
    ELSE IF backend = "pgvector"
    THEN [app |-> [app EXCEPT !.store = { c \in @ : ~(c.collection = collection_name
                                                      /\ c.id \in ids) }],
          store_calls |-> <<[target |-> "connection", method |-> "execute"]>>,
          returned |-> [kind |-> "None"]]
    ELSE [app |-> [app EXCEPT !.store = { c \in @ : ~(c.collection = collection_name
                                                      /\ c.id \in ids) }],
          store_calls |-> <<[target |-> "vectorstore", method |-> "delete"]>>,
          returned |-> [kind |-> "None"]]

\* VectorStoreManager.delete_documents(ids)
vs_delete_documents(app, backend, collection_name, ids) ==
    LET after == [app EXCEPT !.store = { c \in @ : ~(c.collection = collection_name
                                                     /\ c.id \in ids) }]
    IN  IF backend = "chroma"
        THEN [app |-> after,
              store_calls |-> <<[target |-> "vectorstore", method |-> "delete"]>>,
              returned |-> [kind |-> "None"]]
        ELSE IF backend = "pinecone"
        THEN [app |-> after,
              store_calls |-> <<[target |-> "vectorstore._index", method |-> "delete"]>>,
              returned |-> [kind |-> "None"]]
        ELSE IF backend = "pgvector"
        THEN [app |-> after,
              store_calls |-> <<[target |-> "connection", method |-> "execute"]>>,
              returned |-> [kind |-> "None"]]
        ELSE [app |-> app, store_calls |-> <<>>, returned |-> [kind |-> "ValueError"]]

\* VectorStoreManager.delete_collection()
vs_delete_collection(app, backend, collection_name) ==
    LET after == [app EXCEPT !.store = { c \in @ : c.collection # collection_name }]
    IN  IF backend = "chroma"
        THEN [app |-> after,
              store_calls |-> <<[target |-> "vectorstore", method |-> "delete_collection"]>>,
              returned |-> [kind |-> "None"]]
        ELSE IF backend = "pinecone"
        THEN [app |-> after,
              store_calls |-> <<[target |-> "pinecone", method |-> "delete_index"]>>,
              returned |-> [kind |-> "None"]]
        ELSE IF backend = "pgvector"
        THEN [app |-> after,
              store_calls |-> <<[target |-> "connection", method |-> "execute"]>>,
              returned |-> [kind |-> "None"]]
        ELSE [app |-> app, store_calls |-> <<>>, returned |-> [kind |-> "ValueError"]]

\* the management page's delete buttons: the crud call and nothing else
manage_delete_source(app, source_id) ==
    [app |-> [app EXCEPT !.db = delete_source(@, source_id).db],
     store_calls |-> <<>>, returned |-> [kind |-> "None"]]

manage_delete_collection(app, collection_name) ==
    [app |-> [app EXCEPT !.db = delete_collection(@, collection_name).db],
     store_calls |-> <<>>, returned |-> [kind |-> "None"]]

AppInit ==
    /\ state = [db |-> EmptyDb, store |-> {}, next_chunk |-> 1]
    /\ previous = state
    /\ last = "START"
    /\ calls = <<>>
    /\ active = {}
    /\ decision = "none"
    /\ web_results = <<>>
    /\ graded_documents = <<>>

\* what every operation of this part leaves behind
Done(operation, arguments, result, store_calls, ids) ==
    /\ state' = result.app
    /\ previous' = state
    /\ calls' = <<[operation |-> operation, arguments |-> arguments,
                   returned |-> result.returned, store_calls |-> store_calls,
                   ids |-> ids]>>
    /\ last' = operation
    /\ UNCHANGED <<active, decision, web_results, graded_documents>>

\* the sidebar's Create Collection button
AppCreateCollection ==
    /\ state.db.next.collections <= MaxCollections
    /\ \E name \in AppNames :
          /\ CollectionsNamed(state.db, name) = {}
          /\ Done("create_collection", [name |-> name],
                  [app |-> [state EXCEPT !.db = create_collection(@, name, "first notes").db],
                   returned |-> [kind |-> "Collection"]], <<>>, <<>>)

\* uploads are explored while source and chunk ids remain
CanUpload ==
    /\ state.db.next.sources <= MaxSources
    /\ state.next_chunk <= MaxIds

IndexDocuments ==
    /\ CanUpload
    /\ \E collection_name \in AppNames, batches \in BatchOutcomes :
          LET result == index_documents(state, collection_name, batches,
                                        "report.pdf", "pdf")
          IN  Done("index_documents",
                   [collection_name |-> collection_name, batches |-> batches],
                   result, <<>>, result.ids)

ProcessDocuments ==
    /\ CanUpload
    /\ \E collection_name \in AppNames, loaded \in BOOLEAN :
        \E batches \in IF loaded THEN BatchOutcomes ELSE {<<>>} :
          LET result == process_documents(state, loaded, collection_name, batches)
          IN  Done("process_documents",
                   [collection_name |-> collection_name, batches |-> batches,
                    loaded |-> loaded],
                   result, <<>>, result.ids)

ProcessUrl ==
    /\ CanUpload
    /\ \E collection_name \in AppNames, crawl \in {"results", "empty", "raises"} :
        \E batches \in IF crawl = "results" THEN BatchOutcomes ELSE {<<>>} :
          LET result == process_url(state, crawl, collection_name, batches)
          IN  Done("process_url",
                   [collection_name |-> collection_name, batches |-> batches,
                    crawl |-> crawl],
                   result, <<>>, result.ids)

\* the Delete Document button, offered for the sources the page lists
ManageDeleteSource ==
    \E source \in state.db.sources :
        LET result == manage_delete_source(state, source.id)
        IN  Done("manage_delete_source", [source_id |-> source.id],
                 result, result.store_calls, <<>>)

\* the Delete Complete Collection button, offered for the collections listed
ManageDeleteCollection ==
    \E collection \in state.db.collections :
        LET result == manage_delete_collection(state, collection.name)
        IN  Done("manage_delete_collection", [collection_name |-> collection.name],
                 result, result.store_calls, <<>>)

VsDeleteCollection ==
    \E backend \in Backends, collection_name \in AppNames :
        LET result == vs_delete_collection(state, backend, collection_name)
        IN  Done("vs_delete_collection",
                 [backend |-> backend, collection_name |-> collection_name],
                 result, result.store_calls, <<>>)

VsDeleteDocuments ==
    \E backend \in Backends, collection_name \in AppNames :
        \E ids \in { {c.id} : c \in state.store } \cup {{}} :
            LET result == vs_delete_documents(state, backend, collection_name, ids)
            IN  Done("vs_delete_documents",
                     [backend |-> backend, collection_name |-> collection_name,
                      ids |-> ids],
                     result, result.store_calls, <<>>)

AppNext ==
    \/ AppCreateCollection
    \/ IndexDocuments
    \/ ProcessDocuments
    \/ ProcessUrl
    \/ ManageDeleteSource
    \/ ManageDeleteCollection
    \/ VsDeleteCollection
    \/ VsDeleteDocuments

AppSpec == AppInit /\ [][AppNext]_vars

\* the chunk ids the store holds
StoreIds(app) == { c.id : c \in app.store }

\* the chunk ids the database records for a set of sources
RecordedIds(db, sources) == { d.value : d \in UNION { IdsOf(db, src) : src \in sources } }

\* C34: delete_collection and delete_documents of the vector store manager on
\* a backend other than chroma, pinecone or pgvector raise ValueError and make
\* no call on the underlying store, which keeps its chunks; on a supported
\* backend exactly one call is made and it is that backend's deletion call
C34_DeletionDispatch ==
    last \in {"vs_delete_collection", "vs_delete_documents"} =>
        LET backend == Operation.arguments.backend
            BackendCall ==
                IF last = "vs_delete_collection"
                THEN [chroma |-> [target |-> "vectorstore", method |-> "delete_collection"],
                      pinecone |-> [target |-> "pinecone", method |-> "delete_index"],
                      pgvector |-> [target |-> "connection", method |-> "execute"]]
                ELSE [chroma |-> [target |-> "vectorstore", method |-> "delete"],
                      pinecone |-> [target |-> "vectorstore._index", method |-> "delete"],
                      pgvector |-> [target |-> "connection", method |-> "execute"]]
        IN  IF backend \in SupportedBackends
            THEN /\ Operation.returned.kind = "None"
                 /\ Operation.store_calls = <<BackendCall[backend]>>
            ELSE /\ Operation.returned.kind = "ValueError"
                 /\ Operation.store_calls = <<>>
                 /\ state = previous

\* delete_documents was asked, on an unsupported backend, to delete a chunk
\* the store holds
C34_Witness ==
    /\ last = "vs_delete_documents"
    /\ Operation.arguments.backend \notin SupportedBackends
    /\ Operation.arguments.ids # {}
    /\ Operation.arguments.ids \subseteq StoreIds(previous)
    /\ Operation.returned.kind = "ValueError"

\* C36: after a source or a collection is deleted through the management page,
\* none of the chunk ids the database recorded for it remain in the vector
\* store
C36_DeletionReachesStore ==
    /\ (last = "manage_delete_source" =>
            StoreIds(state) \cap
              RecordedIds(previous.db,
                          SourcesWithId(previous.db, Operation.arguments.source_id)) = {})
    /\ (last = "manage_delete_collection" =>
            StoreIds(state) \cap
              RecordedIds(previous.db,
                          get_all_source_in_collection(
                              previous.db, Operation.arguments.collection_name)) = {})

\* C37: index_documents skips a failed batch and goes on, returns the number
\* of chunk ids the successful batches stored, records a source of the
\* collection with exactly those ids whenever that number is positive, and
\* records nothing when it is zero
C37_StoreAndDatabaseInStep ==
    last = "index_documents" =>
        LET batches == Operation.arguments.batches
            ids == { Operation.ids[k] : k \in 1..Len(Operation.ids) }
            n == Operation.returned.value
            added == state.db.sources \ previous.db.sources
        IN  /\ n = Cardinality({ i \in 1..Len(batches) : batches[i] })
            /\ n = Cardinality(ids)
            /\ StoreIds(state) = StoreIds(previous) \cup ids
            /\ (n > 0 =>
                   \E src \in added :
                       /\ added = {src}
                       /\ src \in get_all_source_in_collection(
                                      state.db, Operation.arguments.collection_name)
                       /\ RecordedIds(state.db, {src}) = ids)
            /\ (n = 0 => state.db = previous.db)

\* C38: process_url and process_documents return an integer on every outcome:
\* the number of chunks indexed when indexing ran and 0 when crawling or
\* loading failed or the crawl had no results
C38_IntegerOnEveryOutcome ==
    last \in {"process_url", "process_documents"} =>
        /\ Operation.returned.kind = "int"
        /\ Operation.returned.value = Len(Operation.ids)

-----------------------------------------------------------------------------
(* The chat page.  Here `state` holds st.session_state.chat_history, `previous`
   is that history before the latest event and `calls` holds the submission:
   the prompt, the chat_history the run was invoked with and how the run
   ended.  The metadata of an assistant turn is left out of the turns: no code
   reads it back into a run *)

Prompts == {"first question", "second question"}

\* how processing a submission ends: the run returns a generation, or
\* building the retriever or the run raises
RunOutcomes == { [kind |-> "answered", generation |-> a] : a \in Answers }
                   \cup {[kind |-> "raised"]}

\* st.session_state.chat_history[:-1]
AllButLast(history) == SubSeq(history, 1, Len(history) - 1)

\* the handler of st.chat_input: the user turn is appended, the run is invoked
\* with the history without it, and the assistant turn is appended when the
\* run returned; the except branch only reports the error
submit(history, prompt, outcome) ==
    LET asked == Append(history, [role |-> "user", content |-> prompt])
    IN  [chat_history |->
             IF outcome.kind = "answered"
             THEN Append(asked, [role |-> "assistant", content |-> outcome.generation])
             ELSE asked,
         passed |-> AllButLast(asked)]

ChatInit ==
    /\ state = [chat_history |-> <<>>]
    /\ previous = [chat_history |-> <<>>]
    /\ last = "START"
    /\ calls = <<>>
    /\ active = {}
    /\ decision = "none"
    /\ web_results = <<>>
    /\ graded_documents = <<>>

Submit ==
    /\ Len(state.chat_history) + 2 <= MaxHistory
    /\ \E prompt \in Prompts, outcome \in RunOutcomes :
          LET result == submit(state.chat_history, prompt, outcome)
          IN  /\ state' = [chat_history |-> result.chat_history]
              /\ calls' = <<[operation |-> "submit", prompt |-> prompt,
                             chat_history |-> result.passed, outcome |-> outcome.kind]>>
    /\ previous' = state
    /\ last' = "submit"
    /\ UNCHANGED <<active, decision, web_results, graded_documents>>

\* the Clear Chat button
ClearChat ==
    /\ state' = [chat_history |-> <<>>]
    /\ previous' = state
    /\ calls' = <<[operation |-> "clear"]>>
    /\ last' = "clear"
    /\ UNCHANGED <<active, decision, web_results, graded_documents>>

ChatNext ==
    \/ Submit
    \/ ClearChat

ChatSpec == ChatInit /\ [][ChatNext]_vars

\* user and assistant turns strictly alternate, starting with a user turn
Alternates(history) ==
    \A i \in 1..Len(history) :
        history[i].role = IF i % 2 = 1 THEN "user" ELSE "assistant"

\* C39: after any sequence of successful and failed submissions the session
\* history alternates user and assistant turns; a run is invoked with the
\* session history without the question being asked, and that history ends
\* with an answered turn, never with a user turn left by a failed run
C39_AlternatingHistory ==
    /\ Alternates(state.chat_history)
    /\ (last = "submit" =>
           /\ Operation.chat_history = previous.chat_history
           /\ (Operation.chat_history # <<>> =>
                  Operation.chat_history[Len(Operation.chat_history)].role = "assistant"))

====
